---- MODULE Spec2Model ----
(***************************************************************************)
(* Model of the shipping-label formatter's image-normalisation pipeline    *)
(* (Node.js core: autoCropLabel, resizeImage, prepareLabel,                *)
(* resizeLabelFromBuffers).                                                *)
(*                                                                         *)
(* Sizes in inches are kept in half inches (8.5 in = 17 half inches) and   *)
(* minAreaRatio = 0.05 as the fraction 1/20, so that all arithmetic is     *)
(* integer arithmetic.  For integers a, n < 2^53 the JavaScript test       *)
(* a < n * 0.05 agrees with 20*a < n (0.05 is the double 0.05*(1+2^-54),   *)
(* and the product rounds back to n/20 whenever 20 divides n), and         *)
(* dark > len * 0.5 is exact.                                              *)
(***************************************************************************)
EXTENDS Integers, Sequences, FiniteSets, TLC

VARIABLES
  image, cropPc, crop, extractCalls,   \* autoCropLabel on one image
  swiftCrop,                           \* LabelProcessor.autoCrop on that image
  mirrorCrops,                         \* autoCropLabel on its mirror images
  resizeIn, resizePc, resized,         \* resizeImage on one buffer
  jobs, tmpFiles, now,                 \* concurrent jobs, os.tmpdir(), Date.now()
  ui, slotFiles, resizeBtnDisabled, isProcessing,   \* the web client's page
  selected, requested, inFlight,       \* files chosen, requests sent and pending
  loads, preview,                      \* thumbnail loads pending, thumbnails shown
  pdfBlobUrl, outputLoads, canvas      \* the result and its preview

cropVars == <<image, cropPc, crop, extractCalls, swiftCrop, mirrorCrops>>

resizeVars == <<resizeIn, resizePc, resized>>

jobVars == <<jobs, tmpFiles, now>>

clientVars == <<ui, slotFiles, resizeBtnDisabled, isProcessing, selected, requested,
                inFlight, loads, preview, pdfBlobUrl, outputLoads, canvas>>

vars == <<image, cropPc, crop, extractCalls, swiftCrop, mirrorCrops, resizeIn, resizePc, resized,
          jobs, tmpFiles, now,
          ui, slotFiles, resizeBtnDisabled, isProcessing, selected, requested,
          inFlight, loads, preview, pdfBlobUrl, outputLoads, canvas>>

(***************************************************************************)
(* Program constants                                                       *)
(***************************************************************************)
borderThreshold == 80

minAreaRatioDen == 20

edgeScanLimit == 100

pad == 8

(***************************************************************************)
(* Bounds of the model                                                     *)
(***************************************************************************)
\* every image of at most this many pixels, with every arrangement of
\* luminances 79 / 80, is an input of autoCropLabel
MaxTinyPixels == 10

\* resizeImage is tried at every dpi from 1 to MaxSmallDpi (and at the usual
\* print resolutions) on every source of up to MaxSmallSrc pixels a side
MaxSmallDpi == 3

MaxSmallSrc == 4

\* Date.now() advances at most this many milliseconds while the jobs run
MaxClock == 1

\* a PDF has at most this many pages
MaxPageCount == 2

\* the user chooses or drops a file at most this many times
MaxSelections == 3

\* the user starts at most this many resizes
MaxRequests == 2

\* loadImageFromPdf is asked for a page index of at most this
MaxPageNum == 2

(***************************************************************************)
(* Helpers                                                                 *)
(***************************************************************************)
Min(a, b) == IF a < b THEN a ELSE b

Max(a, b) == IF a > b THEN a ELSE b

SetMin(S) == CHOOSE m \in S : \A s \in S : m <= s

SetMax(S) == CHOOSE m \in S : \A s \in S : m >= s

(***************************************************************************)
(* Input images: a grayscale raster, row-major, one luminance per pixel    *)
(***************************************************************************)
TinyDims == {d \in (1..MaxTinyPixels) \X (1..MaxTinyPixels) : d[1] * d[2] <= MaxTinyPixels}

TinyImages ==
  UNION {{[width |-> d[1], height |-> d[2], gray |-> g] :
            g \in [0..(d[1] * d[2] - 1) -> {79, 80}]} : d \in TinyDims}

\* a black rectangular outline [l, r) x [t, b) of thickness tx / ty on white
FrameGray(w, h, l, t, r, b, tx, ty) ==
  [i \in 0..(w * h - 1) |->
     LET x == i % w
         y == i \div w
     IN IF /\ l <= x /\ x < r /\ t <= y /\ y < b
           /\ ~(l + tx <= x /\ x < r - tx /\ t + ty <= y /\ y < b - ty)
        THEN 0 ELSE 255]

FrameSizes == {<<5, 4>>, <<5, 5>>, <<24, 24>>, <<5, 204>>, <<204, 5>>}

FrameLow(n) == {o \in {0, 1, 9} : o < n}

FrameHigh(n, lo) == {o \in {n, n - 1, n - 9, lo + 1} : lo < o /\ o <= n}

FrameThick(n) == {1} \cup {k \in {2, 99, 100, 101} : 2 * k < n}

FrameImages ==
  UNION {UNION {UNION {UNION {
    {[width |-> d[1], height |-> d[2],
      gray |-> FrameGray(d[1], d[2], l, t, r, b, tx, ty)] :
        tx \in FrameThick(r - l), ty \in FrameThick(b - t)}
      : r \in FrameHigh(d[1], l), b \in FrameHigh(d[2], t)}
      : t \in FrameLow(d[2])} : l \in FrameLow(d[1])} : d \in FrameSizes}

(***************************************************************************)
(* autoCropLabel                                                           *)
(***************************************************************************)
IsDark(img, x, y) == img.gray[y * img.width + x] < borderThreshold

\* the pixels the bounding-box loop finds dark
DarkPixels(img) ==
  {p \in (0..(img.width - 1)) \X (0..(img.height - 1)) : IsDark(img, p[1], p[2])}

\* mutant: the `if (!found)` early return is lost
FoundAlways(D) == TRUE

Found(D) == D # {}

\* bx0, by0 start at width, height and bx1, by1 at 0; each dark pixel
\* lowers / raises them
BoundingBox(img, D) ==
  [bx0 |-> SetMin({img.width} \cup {p[1] : p \in D}),
   by0 |-> SetMin({img.height} \cup {p[2] : p \in D}),
   bx1 |-> SetMax({0} \cup {p[1] + 1 : p \in D}),
   by1 |-> SetMax({0} \cup {p[2] + 1 : p \in D})]

\* mutant: `<=` for `<` in the area test
TooSmallInclusive(img, boxW, boxH) ==
  boxW * boxH * minAreaRatioDen <= img.width * img.height

TooSmall(img, boxW, boxH) ==
  boxW * boxH * minAreaRatioDen < img.width * img.height

\* the loop `for (x = x0; x < x1; x++) if (dark) count++` of a row
CountRow(img, ry, x, x1) ==
  Cardinality({i \in x..(x1 - 1) : IsDark(img, i, ry)})

\* the same loop down a column
CountCol(img, cx, y, y1) ==
  Cardinality({i \in y..(y1 - 1) : IsDark(img, cx, i)})

\* mutant: `>=` for `>` in the border-line test
AtLeastHalfDark(dark, len) == 2 * dark >= len

\* dark > len * 0.5
MostlyDark(dark, len) == 2 * dark > len

rowIsBorder(img, ry, x0, x1) == MostlyDark(CountRow(img, ry, x0, x1), x1 - x0)

colIsBorder(img, cx, y0, y1) == MostlyDark(CountCol(img, cx, y0, y1), y1 - y0)

ScanLen(boxDim) == Min(boxDim \div 2, edgeScanLimit)

\* each scan yields the edge and the number of rows / columns it examined:
\* the loop stops at the first line from the box's side that is not a
\* border line, and leaves the edge on the box when there is none
ScanTop(img, box, y, scanH, n) ==
  LET ys == {i \in y..(box.by0 + scanH - 1) : ~rowIsBorder(img, i, box.bx0, box.bx1)}
  IN IF ys = {} THEN [edge |-> box.by0, steps |-> n + Max(box.by0 + scanH - y, 0)]
     ELSE [edge |-> SetMin(ys), steps |-> n + (SetMin(ys) - y) + 1]

ScanBottom(img, box, y, scanH, n) ==
  LET ys == {i \in (box.by1 - scanH + 1)..y : ~rowIsBorder(img, i, box.bx0, box.bx1)}
  IN IF ys = {} THEN [edge |-> box.by1, steps |-> n + Max(y - (box.by1 - scanH), 0)]
     ELSE [edge |-> SetMax(ys) + 1, steps |-> n + (y - SetMax(ys)) + 1]

ScanLeft(img, box, x, scanW, n) ==
  LET xs == {i \in x..(box.bx0 + scanW - 1) : ~colIsBorder(img, i, box.by0, box.by1)}
  IN IF xs = {} THEN [edge |-> box.bx0, steps |-> n + Max(box.bx0 + scanW - x, 0)]
     ELSE [edge |-> SetMin(xs), steps |-> n + (SetMin(xs) - x) + 1]

ScanRight(img, box, x, scanW, n) ==
  LET xs == {i \in (box.bx1 - scanW + 1)..x : ~colIsBorder(img, i, box.by0, box.by1)}
  IN IF xs = {} THEN [edge |-> box.bx1, steps |-> n + Max(x - (box.bx1 - scanW), 0)]
     ELSE [edge |-> SetMax(xs) + 1, steps |-> n + (x - SetMax(xs)) + 1]

\* mutant: one pixel less padding on the left / top
PadLowShort(edge) == Max(edge - pad + 1, 0)

PadLow(edge) == Max(edge - pad, 0)

\* mutant: the right / bottom side is not clamped to the image
PadHighUnclamped(edge, limit) == edge + pad

PadHigh(edge, limit) == Min(edge + pad, limit)

NoCropNeeded(box) ==
  [returned |-> "input", box |-> box,
   inner |-> [left |-> 0, top |-> 0, right |-> 0, bottom |-> 0],
   steps |-> [left |-> 0, top |-> 0, right |-> 0, bottom |-> 0],
   rect |-> [left |-> 0, top |-> 0, width |-> 0, height |-> 0]]

\* the value autoCropLabel computes for an image: what it returns, and the
\* bounding box, inner rectangle and extract rectangle on the way
autoCropLabel(img) ==
  LET D == DarkPixels(img)
      box == BoundingBox(img, D)
      boxW == box.bx1 - box.bx0
      boxH == box.by1 - box.by0
  IN IF ~Found(D) THEN NoCropNeeded(box)
     ELSE IF TooSmall(img, boxW, boxH) THEN NoCropNeeded(box)
     ELSE
       LET scanH == ScanLen(boxH)
           scanW == ScanLen(boxW)
           sTop == ScanTop(img, box, box.by0, scanH, 0)
           sBottom == ScanBottom(img, box, box.by1 - 1, scanH, 0)
           sLeft == ScanLeft(img, box, box.bx0, scanW, 0)
           sRight == ScanRight(img, box, box.bx1 - 1, scanW, 0)
           left == PadLow(sLeft.edge)
           top == PadLow(sTop.edge)
           right == PadHigh(sRight.edge, img.width)
           bottom == PadHigh(sBottom.edge, img.height)
       IN [returned |-> "extract", box |-> box,
           inner |-> [left |-> sLeft.edge, top |-> sTop.edge,
                      right |-> sRight.edge, bottom |-> sBottom.edge],
           steps |-> [left |-> sLeft.steps, top |-> sTop.steps,
                      right |-> sRight.steps, bottom |-> sBottom.steps],
           rect |-> [left |-> left, top |-> top,
                     width |-> right - left, height |-> bottom - top]]

NoBox == [bx0 |-> 0, by0 |-> 0, bx1 |-> 0, by1 |-> 0]

(***************************************************************************)
(* LabelProcessor.autoCrop (Swift), on the same dark-pixel classification  *)
(***************************************************************************)
NoRect == [left |-> 0, top |-> 0, width |-> 0, height |-> 0]

\* guard ... else { return image }
ReturnImage == [returned |-> "input", rect |-> NoRect]

\* minX, minY start at width, height and maxX, maxY at 0; maxX and maxY are
\* the coordinates of the last dark column and row themselves
SwiftBoundingBox(img, D) ==
  [minX |-> SetMin({img.width} \cup {p[1] : p \in D}),
   minY |-> SetMin({img.height} \cup {p[2] : p \in D}),
   maxX |-> SetMax({0} \cup {p[1] : p \in D}),
   maxY |-> SetMax({0} \cup {p[2] : p \in D})]

\* darkCount > boxW / 2, counted over minX ..< maxX
SwiftRowIsBorder(img, b, y) ==
  CountRow(img, y, b.minX, b.maxX) > (b.maxX - b.minX) \div 2

\* darkCount > boxH / 2, counted over minY ..< maxY
SwiftColIsBorder(img, b, x) ==
  CountCol(img, x, b.minY, b.maxY) > (b.maxY - b.minY) \div 2

\* for y in minY ..< min(minY + min(boxH / 2, 100), height)
SwiftTop(img, b) ==
  LET n == Min((b.maxY - b.minY) \div 2, edgeScanLimit)
      ys == {y \in b.minY..(Min(b.minY + n, img.height) - 1) : ~SwiftRowIsBorder(img, b, y)}
  IN IF ys = {} THEN b.minY ELSE SetMin(ys)

\* for y in stride(from: maxY, to: max(maxY - min(boxH / 2, 100), 0), by: -1)
SwiftBottom(img, b) ==
  LET n == Min((b.maxY - b.minY) \div 2, edgeScanLimit)
      ys == {y \in (Max(b.maxY - n, 0) + 1)..b.maxY : ~SwiftRowIsBorder(img, b, y)}
  IN IF ys = {} THEN b.maxY ELSE SetMax(ys) + 1

\* for x in minX ..< min(minX + min(boxW / 2, 100), width)
SwiftLeft(img, b) ==
  LET n == Min((b.maxX - b.minX) \div 2, edgeScanLimit)
      xs == {x \in b.minX..(Min(b.minX + n, img.width) - 1) : ~SwiftColIsBorder(img, b, x)}
  IN IF xs = {} THEN b.minX ELSE SetMin(xs)

\* for x in stride(from: maxX, to: max(maxX - min(boxW / 2, 100), 0), by: -1)
SwiftRight(img, b) ==
  LET n == Min((b.maxX - b.minX) \div 2, edgeScanLimit)
      xs == {x \in (Max(b.maxX - n, 0) + 1)..b.maxX : ~SwiftColIsBorder(img, b, x)}
  IN IF xs = {} THEN b.maxX ELSE SetMax(xs) + 1

\* what LabelProcessor.autoCrop returns for an image: the image itself, or
\* the crop to cropRect
LabelProcessor_autoCrop(img) ==
  LET b == SwiftBoundingBox(img, DarkPixels(img))
      boxW == b.maxX - b.minX
      boxH == b.maxY - b.minY
  IN IF ~(b.maxX > b.minX /\ b.maxY > b.minY) THEN ReturnImage
     ELSE IF ~(boxW * boxH >= (img.width * img.height) \div 20) THEN ReturnImage
     ELSE
       LET left == Max(SwiftLeft(img, b) - pad, 0)
           top == Max(SwiftTop(img, b) - pad, 0)
           right == Min(SwiftRight(img, b) + pad, img.width)
           bottom == Min(SwiftBottom(img, b) + pad, img.height)
       IN IF right - left <= 0 \/ bottom - top <= 0 THEN ReturnImage
          ELSE [returned |-> "extract",
                rect |-> [left |-> left, top |-> top,
                          width |-> right - left, height |-> bottom - top]]

\* LabelProcessor.autoCrop has not run
NotRun == [returned |-> "none", rect |-> NoRect]

(***************************************************************************)
(* Mirror images                                                           *)
(***************************************************************************)
\* the image mirrored top to bottom
Flip(img) ==
  [img EXCEPT !.gray = [i \in DOMAIN img.gray |->
     img.gray[(img.height - 1 - (i \div img.width)) * img.width + (i % img.width)]]]

\* the image mirrored left to right
Flop(img) ==
  [img EXCEPT !.gray = [i \in DOMAIN img.gray |->
     img.gray[(i \div img.width) * img.width + (img.width - 1 - (i % img.width))]]]

NoMirrorCrops == [flip |-> NotRun, flop |-> NotRun]

\* the autoCropLabel variables while another specification runs
IdleImage == [width |-> 1, height |-> 1, gray |-> [i \in {0} |-> 255]]

CropIdle ==
  /\ image = IdleImage
  /\ cropPc = "idle"
  /\ crop = NoCropNeeded(NoBox)
  /\ extractCalls = <<>>
  /\ swiftCrop = NotRun
  /\ mirrorCrops = NoMirrorCrops

(***************************************************************************)
(* resizeImage                                                             *)
(***************************************************************************)
\* LABEL_SIZES, in half inches: 4x6, 4x8, 2x7, letter (8.5 x 11)
LABEL_SIZES ==
  [s \in {"4x6", "4x8", "2x7", "letter"} |->
     CASE s = "4x6" -> <<8, 12>>
       [] s = "4x8" -> <<8, 16>>
       [] s = "2x7" -> <<4, 14>>
       [] s = "letter" -> <<17, 22>>]

\* mutant: the pixel size is truncated, not rounded
MathFloorHalves(n) == n \div 2

\* Math.round of n / 2: the nearest integer, a half going up
MathRoundHalves(n) == (n + 1) \div 2

\* std::round(a / b) for a >= 0, b > 0
RoundDiv(a, b) == (2 * a + b) \div (2 * b)

whiteBg == [r |-> 255, g |-> 255, b |-> 255, alpha |-> 255]

\* mutant: the fit branch takes the covering scale
SharpContainAsCover(srcW, srcH, targetW, targetH) ==
  LET w == IF srcW * targetH < srcH * targetW THEN targetW
           ELSE Max(1, RoundDiv(srcW * targetH, srcH))
      h == IF srcW * targetH < srcH * targetW
           THEN Max(1, RoundDiv(srcH * targetW, srcW)) ELSE targetH
  IN [x |-> (targetW - w) \div 2, y |-> (targetH - h) \div 2, w |-> w, h |-> h]

\* sharp's fit "contain": the source keeps its aspect ratio, is scaled to lie
\* inside targetW x targetH and is embedded at the centre; the result is where
\* the scaled source lands in the target
SharpContain(srcW, srcH, targetW, targetH) ==
  LET w == IF srcW * targetH > srcH * targetW THEN targetW
           ELSE Max(1, RoundDiv(srcW * targetH, srcH))
      h == IF srcW * targetH > srcH * targetW
           THEN Max(1, RoundDiv(srcH * targetW, srcW)) ELSE targetH
  IN [x |-> (targetW - w) \div 2, y |-> (targetH - h) \div 2, w |-> w, h |-> h]

\* mutant: the overflow is cut off at the right and the bottom only
SharpCoverAtOrigin(srcW, srcH, targetW, targetH) ==
  LET w == IF srcW * targetH < srcH * targetW THEN targetW
           ELSE Max(1, RoundDiv(srcW * targetH, srcH))
      h == IF srcW * targetH < srcH * targetW
           THEN Max(1, RoundDiv(srcH * targetW, srcW)) ELSE targetH
  IN [x |-> 0, y |-> 0, w |-> w, h |-> h]

\* sharp's fit "cover", position "centre": scaled to cover the target, the
\* overflow cut off around the centre
SharpCover(srcW, srcH, targetW, targetH) ==
  LET w == IF srcW * targetH < srcH * targetW THEN targetW
           ELSE Max(1, RoundDiv(srcW * targetH, srcH))
      h == IF srcW * targetH < srcH * targetW
           THEN Max(1, RoundDiv(srcH * targetW, srcW)) ELSE targetH
  IN [x |-> 0 - ((w - targetW + 1) \div 2), y |-> 0 - ((h - targetH + 1) \div 2),
      w |-> w, h |-> h]

\* mutant: stretch keeps the aspect ratio
SharpFillKeepingAspect(srcW, srcH, targetW, targetH) ==
  LET w == IF srcW * targetH > srcH * targetW THEN targetW
           ELSE Max(1, RoundDiv(srcW * targetH, srcH))
      h == IF srcW * targetH > srcH * targetW
           THEN Max(1, RoundDiv(srcH * targetW, srcW)) ELSE targetH
  IN [x |-> (targetW - w) \div 2, y |-> (targetH - h) \div 2, w |-> w, h |-> h]

\* sharp's fit "fill": each axis scaled on its own to the target
SharpFill(srcW, srcH, targetW, targetH) ==
  [x |-> 0, y |-> 0, w |-> targetW, h |-> targetH]

TargetW(labelSize, dpi) == MathRoundHalves(labelSize[1] * dpi)

TargetH(labelSize, dpi) == MathRoundHalves(labelSize[2] * dpi)

\* mutant: a dimension of 0 is let through
IsNonNegativeInteger(n) == n >= 0

\* sharp's resize(width, height, ...) takes positive integers only and throws
\* on anything else, in every fit mode
IsPositiveInteger(n) == n > 0

\* what resizeImage yields when no call has failed and no buffer is there
NoResized ==
  [width |-> 0, height |-> 0, content |-> [x |-> 0, y |-> 0, w |-> 0, h |-> 0],
   background |-> whiteBg, hasAlpha |-> FALSE, error |-> ""]

\* the buffer resizeImage returns: its pixel size, where the scaled source
\* lies in it, and the colour of the pixels the source does not cover; or the
\* error the resize call throws
resizeImage(src, labelSize, dpi, fitMode) ==
  LET targetW == TargetW(labelSize, dpi)
      targetH == TargetH(labelSize, dpi)
      content == IF fitMode = "stretch" THEN SharpFill(src.width, src.height, targetW, targetH)
                 ELSE IF fitMode = "fill" THEN SharpCover(src.width, src.height, targetW, targetH)
                 ELSE SharpContain(src.width, src.height, targetW, targetH)
  IN IF ~IsPositiveInteger(targetW)
     THEN [NoResized EXCEPT !.error = "Expected positive integer for width"]
     ELSE IF ~IsPositiveInteger(targetH)
     THEN [NoResized EXCEPT !.error = "Expected positive integer for height"]
     ELSE [width |-> targetW, height |-> targetH, content |-> content,
           background |-> whiteBg, hasAlpha |-> FALSE, error |-> ""]

\* an output pixel: covered by the scaled source, or filled with the background
OutPixel(out, x, y) ==
  IF /\ out.content.x <= x /\ x < out.content.x + out.content.w
     /\ out.content.y <= y /\ y < out.content.y + out.content.h
  THEN [from |-> "source", fill |-> out.background]
  ELSE [from |-> "background", fill |-> out.background]

\* the resizeImage variables while another specification runs
IdleResizeIn ==
  [src |-> [width |-> 1, height |-> 1], labelSize |-> <<8, 12>>, dpi |-> 300, fitMode |-> "fit"]

ResizeIdle ==
  /\ resizeIn = IdleResizeIn
  /\ resizePc = "idle"
  /\ resized = NoResized

(***************************************************************************)
(* Page composition: buildPdf2Up.  Lengths on the page are in points;      *)
(* the page and label sizes are in half inches, 36 points each.            *)
(***************************************************************************)
PAGE_WIDTH_IN == 22

PAGE_HEIGHT_IN == 17

PTS_PER_INCH == 72

DEFAULT_LABEL_SIZE == "4x6"

DEFAULT_DPI == 300

\* a length of so many half inches, in points
Points(halves) == (halves * PTS_PER_INCH) \div 2

\* LABEL_SIZES[labelSizeKey] ?? LABEL_SIZES[DEFAULT_LABEL_SIZE]
LabelSizeOf(labelSizeKey) ==
  IF labelSizeKey \in DOMAIN LABEL_SIZES THEN LABEL_SIZES[labelSizeKey]
  ELSE LABEL_SIZES[DEFAULT_LABEL_SIZE]

\* mutant: the right label starts at the page's centre line
DrawXRightAtHalf(i, halfW, labelW) ==
  IF i = 0 THEN (halfW - labelW) \div 2 ELSE halfW

\* x of the i-th image (i = 0, 1)
DrawX(i, halfW, labelW) ==
  IF i = 0 THEN (halfW - labelW) \div 2 ELSE halfW + (halfW - labelW) \div 2

DrawY(pageH, labelH) == (pageH - labelH) \div 2

\* mutant: an image is drawn at its pixel size
DrawSizeInPixels(img, labelSize) == [width |-> img.width, height |-> img.height]

\* width and height an image is drawn at
DrawSize(img, labelSize) ==
  [width |-> Points(labelSize[1]), height |-> Points(labelSize[2])]

NoDoc == [pages |-> <<>>]

\* the document buildPdf2Up makes: one page, the first two images drawn on it
buildPdf2Up(images, labelSize) ==
  LET pageW == Points(PAGE_WIDTH_IN)
      pageH == Points(PAGE_HEIGHT_IN)
      labelW == Points(labelSize[1])
      labelH == Points(labelSize[2])
      halfW == pageW \div 2
      draw(i) == [img |-> images[i + 1],
                  x |-> DrawX(i, halfW, labelW), y |-> DrawY(pageH, labelH),
                  width |-> DrawSize(images[i + 1], labelSize).width,
                  height |-> DrawSize(images[i + 1], labelSize).height]
  IN [pages |-> << [width |-> pageW, height |-> pageH,
                    draws |-> [n \in 1..Min(Len(images), 2) |-> draw(n - 1)]] >>]

(***************************************************************************)
(* Jobs: resizeLabel (file paths), resizeLabelFromBuffers (buffers), the   *)
(* POST /resize route and loadImageFromPdf, run on one event loop.  A job  *)
(* runs from one await to the next without interruption; every await hands *)
(* the loop to the other job.                                              *)
(***************************************************************************)
SUPPORTED_IMAGE_EXTS == {".png", ".jpg", ".jpeg", ".bmp", ".tiff", ".tif", ".webp"}

SUPPORTED_PDF_EXTS == {".pdf"}

SUPPORTED_EXTS == SUPPORTED_IMAGE_EXTS \cup SUPPORTED_PDF_EXTS

\* the UTF-16 code units of the supported extensions
CodeUnits ==
  [e \in SUPPORTED_EXTS |->
     CASE e = ".png"  -> <<46, 112, 110, 103>>
       [] e = ".jpg"  -> <<46, 106, 112, 103>>
       [] e = ".jpeg" -> <<46, 106, 112, 101, 103>>
       [] e = ".bmp"  -> <<46, 98, 109, 112>>
       [] e = ".tiff" -> <<46, 116, 105, 102, 102>>
       [] e = ".tif"  -> <<46, 116, 105, 102>>
       [] e = ".webp" -> <<46, 119, 101, 98, 112>>
       [] e = ".pdf"  -> <<46, 112, 100, 102>>]

\* Array.prototype.sort() without a comparator orders strings by code units
RECURSIVE CodeUnitsLess(_, _)
CodeUnitsLess(u, v) ==
  IF v = <<>> THEN FALSE
  ELSE IF u = <<>> THEN TRUE
  ELSE IF u[1] # v[1] THEN u[1] < v[1]
  ELSE CodeUnitsLess(Tail(u), Tail(v))

\* mutant: [...set] without sort(): the set's insertion order
InsertionOrder(S) ==
  SelectSeq(<<".png", ".jpg", ".jpeg", ".bmp", ".tiff", ".tif", ".webp", ".pdf">>,
            LAMBDA e : e \in S)

\* [...set].sort()
RECURSIVE SortStrings(_)
SortStrings(S) ==
  IF S = {} THEN <<>>
  ELSE LET m == CHOOSE a \in S : \A b \in S \ {a} : CodeUnitsLess(CodeUnits[a], CodeUnits[b])
       IN <<m>> \o SortStrings(S \ {m})

JobIds == {1, 2}

\* the bytes given to job j as its k-th input
Bytes(j, k) == <<j, k>>

NoBytes == <<0, 0>>

\* path.join(os.tmpdir(), `label_${Date.now()}${ext}`)
TmpName(t, ext) == <<"label_", t, ext>>

TmpNames == {TmpName(t, ext) : t \in 0..MaxClock, ext \in SUPPORTED_PDF_EXTS}

NoTmp == <<"", 0, "">>

\* how a buffer came out of the rasteriser: the page and the dpi it was
\* rendered at (zoom = dpi / 72); NoRaster for a decoded image
NoRaster == [page |-> -1, dpi |-> 0]

NoImg == [bytes |-> NoBytes, cropped |-> FALSE, raster |-> NoRaster, width |-> 0, height |-> 0]

Loaded(bytes, raster) ==
  [bytes |-> bytes, cropped |-> FALSE, raster |-> raster, width |-> 0, height |-> 0]

Err(stage, cause) ==
  [stage |-> stage, cause |-> cause, ext |-> "", supported |-> <<>>,
   pageNum |-> -1, pageCount |-> -1]

NoError == Err("", "")

\* `Unsupported file format '${ext}'. Supported: ${[...SUPPORTED_EXTS].sort().join(", ")}`
UnsupportedFormat(stage, ext) ==
  [Err(stage, "Unsupported format") EXCEPT
     !.ext = ext, !.supported = SortStrings(SUPPORTED_EXTS)]

\* `Page ${pageNum} does not exist. PDF has ${pageCount} page(s).`
PageDoesNotExist(pageNum, pageCount) ==
  [Err("load", "Page does not exist") EXCEPT !.pageNum = pageNum, !.pageCount = pageCount]

\* a call as the caller makes it: the parameters named in omitted are left
\* out; autoCropArg is what is passed for autoCrop (the text of the form
\* field auto_crop, the command-line flag, or "true" / "false" for the
\* boolean)
NewRequest(entry, exts, omitted, autoCropArg, dpi, fitMode, labelSize, pageCounts, pageNum) ==
  [entry |-> entry, exts |-> exts, omitted |-> omitted, autoCropArg |-> autoCropArg,
   autoCrop |-> TRUE, dpi |-> dpi, fitMode |-> fitMode,
   labelSize |-> labelSize, pageCounts |-> pageCounts, pageNum |-> pageNum,
   pc |-> "new", k |-> 0, args |-> <<>>, size |-> LABEL_SIZES[DEFAULT_LABEL_SIZE],
   tmp |-> NoTmp, img |-> NoImg, pending |-> NoError, labels |-> <<>>,
   error |-> NoError, pdf |-> NoDoc, loadPageCalls |-> <<>>, ran |-> <<>>]

\* a call with autoCrop, dpi and labelSize given and fitMode "fit"
NewJobWith(entry, exts, autoCrop, dpi, labelSize, pageCounts, pageNum) ==
  NewRequest(entry, exts, {}, IF autoCrop THEN "true" ELSE "false", dpi, "fit",
             labelSize, pageCounts, pageNum)

\* a job with the default dpi and label size, every document one page long
NewJob(entry, exts, autoCrop) ==
  NewJobWith(entry, exts, autoCrop, DEFAULT_DPI, DEFAULT_LABEL_SIZE,
             [i \in DOMAIN exts |-> 1], 0)

AbsentJob == [NewJob("buffers", <<".png">>, FALSE) EXCEPT !.pc = "absent"]

JobsIdle ==
  /\ jobs = [j \in JobIds |-> AbsentJob]
  /\ tmpFiles = [n \in TmpNames |-> NoBytes]
  /\ now = 0

\* mutant: the error is noted and the job goes on to compose what it has
FailKeepsGoing(jb, error) == [jb EXCEPT !.pc = "awaitPdf", !.error = error]

\* a throw reaches the entry point's caller: no try / catch encloses a stage
Fail(jb, error) == [jb EXCEPT !.pc = "failed", !.error = error]

Throw(jb, stage, cause) == Fail(jb, Err(stage, cause))

\* a stage has run on the job's k-th input
Ran(jb, stage) == [jb EXCEPT !.ran = Append(@, <<jb.k, stage>>)]

\* mutant: the detector runs whatever autoCrop says
AfterLoadAlwaysCrop(jb, img) ==
  [Ran(jb, "load") EXCEPT !.pc = "awaitCrop", !.img = img]

\* prepare / prepareLabel once the image is loaded:
\* if (autoCrop) img = await autoCropLabel(img); return resizeImage(...)
AfterLoad(jb, img) ==
  IF jb.autoCrop
  THEN [Ran(jb, "load") EXCEPT !.pc = "awaitCrop", !.img = img]
  ELSE [Ran(jb, "load") EXCEPT !.pc = "awaitResize", !.img = img]

\* does the job go through resizeLabelFromBuffers?
UsesBuffers(jb) == jb.entry \in {"buffers", "post"}

\* does the job go through resizeLabel?
UsesPaths(jb) == jb.entry \in {"path", "cli"}

\* bufToImage (buffers) or loadImage (path) for the job's k-th input, up to
\* its first await; yields the job and the temporary directory
StartLabel(jb, j, k, files, t) ==
  LET ext == jb.args[k]
  IN IF UsesBuffers(jb)
     THEN IF ext \in SUPPORTED_PDF_EXTS
          THEN [job |-> [jb EXCEPT !.k = k, !.tmp = TmpName(t, ext), !.pc = "awaitImport"],
                files |-> [files EXCEPT ![TmpName(t, ext)] = Bytes(j, k)]]
          ELSE [job |-> [jb EXCEPT !.k = k, !.pc = "awaitDecode"], files |-> files]
     ELSE IF ext \in SUPPORTED_IMAGE_EXTS
          THEN [job |-> [jb EXCEPT !.k = k, !.pc = "awaitDecode"], files |-> files]
          ELSE IF ext \in SUPPORTED_PDF_EXTS
          THEN [job |-> [jb EXCEPT !.k = k, !.tmp = NoTmp, !.pc = "awaitImport"],
                files |-> files]
          ELSE [job |-> Fail([jb EXCEPT !.k = k], UnsupportedFormat("load", ext)),
                files |-> files]

\* POST /resize: the second file is passed on only if its extension is
\* supported
PostArgs(exts) ==
  IF Len(exts) = 2 /\ exts[2] \in SUPPORTED_EXTS THEN exts ELSE <<exts[1]>>

\* resizeLabelFromBuffers: if (buffer2 && ext2)
BufferArgs(exts) ==
  IF Len(exts) = 2 /\ exts[2] # "" THEN exts ELSE <<exts[1]>>

\* String.prototype.toLowerCase, on the texts a form field is given here
ToLowerCase(text) ==
  CASE text = "TRUE" -> "true"
    [] text = "True" -> "true"
    [] text = "FALSE" -> "false"
    [] OTHER -> text

\* the autoCrop flag the pipeline runs with: true by default; POST /resize
\* takes ((auto_crop ?? "true").toLowerCase() === "true"), the command line
\* turns it off with --no-crop, the core takes the boolean
AutoCropOf(jb) ==
  IF "autoCrop" \in jb.omitted THEN TRUE
  ELSE IF jb.entry = "post" THEN ToLowerCase(jb.autoCropArg) = "true"
  ELSE IF jb.entry = "cli" THEN jb.autoCropArg # "--no-crop"
  ELSE jb.autoCropArg = "true"

\* the label size the pipeline runs with: POST /resize and the command line
\* pass no labelSize to the core, whatever the caller chose
SizeOf(jb) ==
  IF "labelSize" \in jb.omitted \/ jb.entry \in {"post", "cli"}
  THEN LABEL_SIZES[DEFAULT_LABEL_SIZE]
  ELSE LabelSizeOf(jb.labelSize)

\* the job as the core's entry point sees it: the inputs it will process and
\* the parameters it resolved, defaults filled in
Entered(jb) ==
  [jb EXCEPT
     !.args = IF jb.entry = "post" THEN PostArgs(jb.exts)
              ELSE IF jb.entry = "buffers" THEN BufferArgs(jb.exts)
              ELSE jb.exts,
     !.size = SizeOf(jb),
     !.autoCrop = AutoCropOf(jb),
     !.dpi = IF "dpi" \in jb.omitted THEN DEFAULT_DPI ELSE jb.dpi,
     !.fitMode = IF "fitMode" \in jb.omitted THEN "fit" ELSE jb.fitMode]

\* POST /resize, resizeLabel, resizeLabelFromBuffers or loadImageFromPdf is
\* called
Call(j) ==
  /\ jobs[j].pc = "new"
  /\ LET jb == Entered(jobs[j])
         s == StartLabel(jb, j, 1, tmpFiles, now)
     IN IF jb.entry = "post" /\ jb.exts[1] \notin SUPPORTED_EXTS
        THEN /\ jobs' = [jobs EXCEPT ![j] =
                           Fail([jb EXCEPT !.k = 1], UnsupportedFormat("request", jb.exts[1]))]
             /\ UNCHANGED tmpFiles
        ELSE IF jb.entry = "loadImageFromPdf"
        THEN /\ jobs' = [jobs EXCEPT ![j] = [jb EXCEPT !.k = 1, !.pc = "awaitImport"]]
             /\ UNCHANGED tmpFiles
        ELSE /\ jobs' = [jobs EXCEPT ![j] = s.job]
             /\ tmpFiles' = s.files
  /\ UNCHANGED <<now, cropVars, resizeVars, clientVars>>

\* sharp(...).png().toBuffer() settles
Decode(j) ==
  /\ jobs[j].pc = "awaitDecode"
  /\ \E ok \in BOOLEAN :
       jobs' = [jobs EXCEPT ![j] =
                  IF ok THEN AfterLoad(@, Loaded(Bytes(j, @.k), NoRaster))
                  ELSE Throw(@, "load", "sharp")]
  /\ UNCHANGED <<tmpFiles, now, cropVars, resizeVars, clientVars>>

\* mutant: a page index equal to the page count is let through
PageMissingOffByOne(pageNum, pageCount) == pageNum > pageCount

\* if (pageNum >= pageCount) throw
PageMissing(pageNum, pageCount) == pageNum >= pageCount

\* loadImageFromPdf once mupdf is imported: the document is opened, the page
\* index checked, the page loaded and rendered at zoom dpi / 72
loadImageFromPdf(bytes, pageCount, pageNum, dpi) ==
  IF PageMissing(pageNum, pageCount)
  THEN [error |-> PageDoesNotExist(pageNum, pageCount), loadPage |-> <<>>, img |-> NoImg]
  ELSE [error |-> NoError, loadPage |-> <<pageNum>>,
        img |-> Loaded(bytes, [page |-> pageNum, dpi |-> dpi])]

\* the number of pages of the document these bytes hold
PageCount(bytes) == jobs[bytes[1]].pageCounts[bytes[2]]

\* import("mupdf") settles: loadImageFromPdf reads the file and rasterises
\* the page.  bufToImage passes page 0 and the job's dpi; loadImage passes
\* the path alone, so the page and the dpi are loadImageFromPdf's defaults.
Rasterize(j) ==
  /\ jobs[j].pc = "awaitImport"
  /\ LET jb == jobs[j]
         own == Bytes(j, jb.k)
         held == tmpFiles[jb.tmp]
         viaTmp == loadImageFromPdf(held, PageCount(held), 0, jb.dpi)
         viaPath == loadImageFromPdf(own, PageCount(own), 0, DEFAULT_DPI)
         direct == loadImageFromPdf(own, PageCount(own), jb.pageNum, jb.dpi)
         called(r) == [jb EXCEPT !.loadPageCalls = @ \o [i \in DOMAIN r.loadPage |-> <<jb.k, r.loadPage[i]>>]]
     IN jobs' = [jobs EXCEPT ![j] =
          IF UsesPaths(jb)
          THEN IF viaPath.error # NoError THEN Fail(jb, viaPath.error)
               ELSE AfterLoad(called(viaPath), viaPath.img)
          ELSE IF jb.entry = "loadImageFromPdf"
          THEN IF direct.error # NoError THEN Fail(jb, direct.error)
               ELSE [Ran(called(direct), "load") EXCEPT !.pc = "returned", !.img = direct.img]
          ELSE IF held = NoBytes
          THEN [jb EXCEPT !.pc = "awaitRaster", !.pending = Err("load", "ENOENT")]
          ELSE [called(viaTmp) EXCEPT !.pc = "awaitRaster", !.pending = viaTmp.error,
                                      !.img = viaTmp.img]]
  /\ UNCHANGED <<tmpFiles, now, cropVars, resizeVars, clientVars>>

\* bufToImage's finally { fs.unlinkSync(tmp) }, then prepare goes on
Unlink(j) ==
  /\ jobs[j].pc = "awaitRaster"
  /\ LET jb == jobs[j]
     IN IF tmpFiles[jb.tmp] = NoBytes
        THEN /\ jobs' = [jobs EXCEPT ![j] = Throw(jb, "unlink", "ENOENT")]
             /\ UNCHANGED tmpFiles
        ELSE /\ tmpFiles' = [tmpFiles EXCEPT ![jb.tmp] = NoBytes]
             /\ jobs' = [jobs EXCEPT ![j] =
                           IF jb.pending # NoError
                           THEN Fail(jb, jb.pending)
                           ELSE AfterLoad(jb, jb.img)]
  /\ UNCHANGED <<now, cropVars, resizeVars, clientVars>>

\* autoCropLabel has no try / catch: a rejected sharp call rejects it, and
\* prepare / prepareLabel do not catch either
CropOutcome(jb, outcome) ==
  IF outcome = "throws" THEN Throw(jb, "autoCrop", "sharp")
  ELSE IF outcome = "extract"
  THEN [Ran(jb, "autoCrop") EXCEPT !.pc = "awaitResize", !.img.cropped = TRUE]
  ELSE [Ran(jb, "autoCrop") EXCEPT !.pc = "awaitResize"]

\* autoCropLabel settles: the input itself, an extracted crop, or a rejection
\* of one of its sharp calls
CropSettles(j) ==
  /\ jobs[j].pc = "awaitCrop"
  /\ \E outcome \in {"input", "extract", "throws"} :
       jobs' = [jobs EXCEPT ![j] = CropOutcome(@, outcome)]
  /\ UNCHANGED <<tmpFiles, now, cropVars, resizeVars, clientVars>>

\* does the job have another input after its k-th?
HasNext(jb) == jb.k < Len(jb.args)

\* resizeImage settles; then the next input is started, or the page is built
ResizeSettles(j) ==
  /\ jobs[j].pc = "awaitResize"
  /\ \E ok \in BOOLEAN :
       LET jb == jobs[j]
           label == [jb.img EXCEPT !.width = TargetW(jb.size, jb.dpi),
                                   !.height = TargetH(jb.size, jb.dpi)]
           done == [Ran(jb, "resize") EXCEPT !.labels = Append(@, label)]
           s == StartLabel(done, j, jb.k + 1, tmpFiles, now)
       IN IF ~ok
          THEN /\ jobs' = [jobs EXCEPT ![j] = Throw(jb, "resize", "sharp")]
               /\ UNCHANGED tmpFiles
          ELSE IF HasNext(jb)
          THEN /\ jobs' = [jobs EXCEPT ![j] = s.job]
               /\ tmpFiles' = s.files
          ELSE /\ jobs' = [jobs EXCEPT ![j] = [done EXCEPT !.pc = "awaitPdf"]]
               /\ UNCHANGED tmpFiles
  /\ UNCHANGED <<now, cropVars, resizeVars, clientVars>>

\* buildPdf2Up settles: at most two images are embedded
PdfSettles(j) ==
  /\ jobs[j].pc = "awaitPdf"
  /\ \E ok \in BOOLEAN :
       LET jb == jobs[j]
       IN jobs' = [jobs EXCEPT ![j] =
                     IF ok THEN [jb EXCEPT !.pc = "done",
                                           !.pdf = buildPdf2Up(jb.labels, jb.size)]
                     ELSE Throw(jb, "compose", "pdf-lib")]
  /\ UNCHANGED <<tmpFiles, now, cropVars, resizeVars, clientVars>>

\* a millisecond passes
Tick ==
  /\ now < MaxClock
  /\ now' = now + 1
  /\ UNCHANGED <<jobs, tmpFiles, cropVars, resizeVars, clientVars>>

(***************************************************************************)
(* The web client: main.ts (plain DOM) and App.tsx (React) with its        *)
(* PreviewSlot and OutputPreview components.  A file is the number of the  *)
(* selection that chose it, with its extension; a blob URL is the number   *)
(* of the request whose response it holds.                                 *)
(***************************************************************************)
\* file1 / file2 = null
NoFile == [n |-> 0, ext |-> ""]

\* pdfBlobUrl = null
NoUrl == 0

Slots == {1, 2}

\* the extensions by which a preview tells a PDF from an image
ClientExts == {"pdf", "png"}

\* the client's variables while another specification runs
ClientIdle ==
  /\ ui = "none"
  /\ slotFiles = [s \in Slots |-> NoFile]
  /\ resizeBtnDisabled = TRUE
  /\ isProcessing = FALSE
  /\ selected = 0
  /\ requested = 0
  /\ inFlight = {}
  /\ loads = {}
  /\ preview = [s \in Slots |-> NoFile]
  /\ pdfBlobUrl = NoUrl
  /\ outputLoads = {}
  /\ canvas = NoUrl

\* is the Resize button disabled?  main.ts sets the attribute; App.tsx
\* renders disabled={!file1 || isProcessing}
ButtonDisabled ==
  IF ui = "main.ts" THEN resizeBtnDisabled
  ELSE slotFiles[1] = NoFile \/ isProcessing

\* the effect cleanup of OutputPreview: cancelled = true
Cancelled(os) == {[o EXCEPT !.cancelled = TRUE] : o \in os}

\* a file is dropped on, or chosen in, a drop zone: handleFile (main.ts),
\* onFile and the effect of PreviewSlot (App.tsx).  The thumbnail of a PDF
\* is first blanked; its load, like an image's, is started and left running.
HandleFile(slot, ext) ==
  /\ ui \in {"main.ts", "App.tsx"}
  /\ selected < MaxSelections
  /\ LET f == [n |-> selected + 1, ext |-> ext]
     IN /\ selected' = selected + 1
        /\ slotFiles' = [slotFiles EXCEPT ![slot] = f]
        /\ resizeBtnDisabled' = IF ui = "main.ts" THEN slotFiles'[1] = NoFile
                                ELSE resizeBtnDisabled
        /\ preview' = IF ext = "pdf" THEN [preview EXCEPT ![slot] = NoFile] ELSE preview
        /\ loads' = loads \cup {[slot |-> slot, file |-> f]}
  /\ UNCHANGED <<ui, isProcessing, requested, inFlight, pdfBlobUrl, outputLoads, canvas>>
  /\ UNCHANGED <<cropVars, resizeVars, jobVars>>

\* the clear button of a DropZone (App.tsx): onClear, then the effect of
\* PreviewSlot with no file
Clear(slot) ==
  /\ ui = "App.tsx"
  /\ slotFiles[slot] # NoFile
  /\ slotFiles' = [slotFiles EXCEPT ![slot] = NoFile]
  /\ preview' = [preview EXCEPT ![slot] = NoFile]
  /\ UNCHANGED <<ui, resizeBtnDisabled, isProcessing, selected, requested, inFlight,
                 loads, pdfBlobUrl, outputLoads, canvas>>
  /\ UNCHANGED <<cropVars, resizeVars, jobVars>>

\* a thumbnail load settles: reader.onload, or renderPdfToDataUrl resolved
\* (then) or rejected (catch); nothing tells the load of an earlier file
\* from that of the slot's current one
LoadSettles(l, ok) ==
  /\ l \in loads
  /\ ok \/ l.file.ext = "pdf"
  /\ loads' = loads \ {l}
  /\ preview' = [preview EXCEPT ![l.slot] = IF ok THEN l.file ELSE NoFile]
  /\ UNCHANGED <<ui, slotFiles, resizeBtnDisabled, isProcessing, selected, requested,
                 inFlight, pdfBlobUrl, outputLoads, canvas>>
  /\ UNCHANGED <<cropVars, resizeVars, jobVars>>

\* the Resize button is clicked: the click handler (main.ts) or handleResize
\* (App.tsx) up to `await fetch("/resize", ...)`
ClickResize ==
  /\ ui \in {"main.ts", "App.tsx"}
  /\ ~ButtonDisabled
  /\ slotFiles[1] # NoFile
  /\ requested < MaxRequests
  /\ requested' = requested + 1
  /\ inFlight' = inFlight \cup {requested + 1}
  /\ resizeBtnDisabled' = IF ui = "main.ts" THEN TRUE ELSE resizeBtnDisabled
  /\ isProcessing' = IF ui = "App.tsx" THEN TRUE ELSE isProcessing
  /\ pdfBlobUrl' = NoUrl
  /\ outputLoads' = Cancelled(outputLoads)
  /\ canvas' = NoUrl
  /\ UNCHANGED <<ui, slotFiles, selected, loads, preview>>
  /\ UNCHANGED <<cropVars, resizeVars, jobVars>>

\* the response of a request arrives, or the request fails: the rest of the
\* handler, its finally block included.  main.ts renders the page into the
\* output canvas itself; App.tsx sets pdfBlobUrl, which mounts OutputPreview
\* and starts its effect.
RequestSettles(r, ok) ==
  /\ r \in inFlight
  /\ inFlight' = inFlight \ {r}
  /\ resizeBtnDisabled' = IF ui = "main.ts" THEN FALSE ELSE resizeBtnDisabled
  /\ isProcessing' = IF ui = "App.tsx" THEN FALSE ELSE isProcessing
  /\ pdfBlobUrl' = IF ok THEN r ELSE pdfBlobUrl
  /\ canvas' = IF ok /\ ui = "main.ts" THEN r ELSE canvas
  /\ outputLoads' = IF ok /\ ui = "App.tsx"
                    THEN Cancelled(outputLoads) \cup {[url |-> r, cancelled |-> FALSE]}
                    ELSE outputLoads
  /\ UNCHANGED <<ui, slotFiles, selected, requested, loads, preview>>
  /\ UNCHANGED <<cropVars, resizeVars, jobVars>>

\* the effect of OutputPreview has fetched and rendered its blob URL:
\* if (!cancelled && container) the canvas is put in
OutputLoadSettles(o) ==
  /\ o \in outputLoads
  /\ outputLoads' = outputLoads \ {o}
  /\ canvas' = IF o.cancelled THEN canvas ELSE o.url
  /\ UNCHANGED <<ui, slotFiles, resizeBtnDisabled, isProcessing, selected, requested,
                 inFlight, loads, preview, pdfBlobUrl>>
  /\ UNCHANGED <<cropVars, resizeVars, jobVars>>

(***************************************************************************)
(* SpecClient: one page of the web client under any sequence of user       *)
(* events and any order of completions                                     *)
(***************************************************************************)
InitClient ==
  /\ ui \in {"main.ts", "App.tsx"}
  /\ slotFiles = [s \in Slots |-> NoFile]
  /\ resizeBtnDisabled \in (IF ui = "main.ts" THEN BOOLEAN ELSE {TRUE})
  /\ isProcessing = FALSE
  /\ selected = 0
  /\ requested = 0
  /\ inFlight = {}
  /\ loads = {}
  /\ preview = [s \in Slots |-> NoFile]
  /\ pdfBlobUrl = NoUrl
  /\ outputLoads = {}
  /\ canvas = NoUrl
  /\ CropIdle
  /\ ResizeIdle
  /\ JobsIdle

NextClient ==
  \/ \E slot \in Slots, ext \in ClientExts : HandleFile(slot, ext)
  \/ \E slot \in Slots : Clear(slot)
  \/ \E l \in loads, ok \in BOOLEAN : LoadSettles(l, ok)
  \/ ClickResize
  \/ \E r \in inFlight, ok \in BOOLEAN : RequestSettles(r, ok)
  \/ \E o \in outputLoads : OutputLoadSettles(o)

SpecClient == InitClient /\ [][NextClient]_vars

(***************************************************************************)
(* SpecJobs: two jobs on one event loop                                    *)
(***************************************************************************)
JobExts == {".pdf", ".png"}

JobInputs == {<<e>> : e \in JobExts} \cup {<<e1, e2>> : e1 \in JobExts, e2 \in JobExts}

InitJobs ==
  /\ jobs \in [JobIds -> {NewJob(en, exts, ac) :
                            en \in {"buffers", "path"}, exts \in JobInputs, ac \in BOOLEAN}]
  /\ tmpFiles = [n \in TmpNames |-> NoBytes]
  /\ now = 0
  /\ CropIdle
  /\ ResizeIdle
  /\ ClientIdle

NextJobs ==
  \/ \E j \in JobIds : Call(j)
  \/ \E j \in JobIds : Decode(j)
  \/ \E j \in JobIds : Rasterize(j)
  \/ \E j \in JobIds : Unlink(j)
  \/ \E j \in JobIds : CropSettles(j)
  \/ \E j \in JobIds : ResizeSettles(j)
  \/ \E j \in JobIds : PdfSettles(j)
  \/ Tick

SpecJobs == InitJobs /\ [][NextJobs]_vars

(***************************************************************************)
(* SpecRequest: one job, through any entry point, with any inputs          *)
(***************************************************************************)
\* extensions of the files a caller may hand in: supported ones, an
\* unsupported one, and a name without an extension
RequestExts == {".pdf", ".png", ".gif", ""}

RequestInputs ==
  {<<e>> : e \in RequestExts} \cup {<<e1, e2>> : e1 \in RequestExts, e2 \in RequestExts}

RequestDpis == {150, DEFAULT_DPI}

\* catalog keys, and one that is not in the catalog
RequestLabelSizes == {"4x8", "2x7", "letter", "a4"}

RequestEntries == {"buffers", "path", "post", "cli"}

\* what a caller may pass for autoCrop: a boolean to the core, any text in
\* the form field auto_crop, the flag --no-crop on the command line
AutoCropArgs(entry) ==
  IF entry = "post" THEN {"true", "TRUE", "false", "on"}
  ELSE IF entry = "cli" THEN {"--no-crop"}
  ELSE {"true", "false"}

\* the parameters a caller can leave out (the command line has no option for
\* the label size)
Omittable == {"autoCrop", "dpi", "fitMode", "labelSize"}

\* the parameters of a call; a parameter left out is undefined
RequestParams(entry) ==
  {[omitted |-> om,
    autoCropArg |-> IF "autoCrop" \in om THEN "undefined" ELSE a,
    dpi |-> IF "dpi" \in om THEN 0 ELSE 150,
    fitMode |-> IF "fitMode" \in om THEN "undefined" ELSE "fill",
    labelSize |-> IF "labelSize" \in om THEN "undefined" ELSE size] :
     om \in {o \in SUBSET Omittable : entry = "cli" => "labelSize" \in o},
     a \in AutoCropArgs(entry), size \in RequestLabelSizes}

\* the page counts of a job's documents: any up to MaxPageCount for a PDF
\* (an input that is no PDF has none to count)
PageCountsOf(exts) ==
  {pcs \in [DOMAIN exts -> 0..MaxPageCount] :
     \A i \in DOMAIN exts : exts[i] \notin SUPPORTED_PDF_EXTS => pcs[i] = 1}

PdfPageRequests ==
  {NewJobWith("loadImageFromPdf", <<".pdf">>, FALSE, dpi, DEFAULT_LABEL_SIZE, <<n>>, p) :
     dpi \in RequestDpis, n \in 0..MaxPageCount, p \in 0..MaxPageNum}

InitRequest ==
  /\ \/ \E en \in RequestEntries, exts \in RequestInputs :
            \E p \in RequestParams(en), pcs \in PageCountsOf(exts) :
               jobs = [j \in JobIds |->
                         IF j = 1
                         THEN NewRequest(en, exts, p.omitted, p.autoCropArg, p.dpi,
                                         p.fitMode, p.labelSize, pcs, 0)
                         ELSE AbsentJob]
     \/ \E r \in PdfPageRequests :
            jobs = [j \in JobIds |-> IF j = 1 THEN r ELSE AbsentJob]
  /\ tmpFiles = [n \in TmpNames |-> NoBytes]
  /\ now = 0
  /\ CropIdle
  /\ ResizeIdle
  /\ ClientIdle

SpecRequest == InitRequest /\ [][NextJobs]_vars

(***************************************************************************)
(* SpecResize: resizeImage applied to one buffer                           *)
(***************************************************************************)
SrcDims ==
  ((1..MaxSmallSrc) \X (1..MaxSmallSrc))
    \cup {<<1000, 1500>>, <<1200, 1800>>, <<2550, 3300>>, <<3300, 2550>>, <<1800, 100>>, <<7, 2000>>}

\* the dpi is any number the caller passes: 0 and negative values included
DpiValues == (-1..MaxSmallDpi) \cup {72, 73, 150, 203, 300, 301, 600}

\* labelSize is any pair the caller passes: the catalog's sizes, and sizes
\* with a side of zero or less
ResizeLabelSizes ==
  {LABEL_SIZES[k] : k \in DOMAIN LABEL_SIZES} \cup {<<0, 12>>, <<8, 0>>, <<-8, 12>>}

FitModes == {"fit", "fill", "stretch"}

InitResize ==
  /\ \E d \in SrcDims, size \in ResizeLabelSizes, dpi \in DpiValues, m \in FitModes :
       resizeIn = [src |-> [width |-> d[1], height |-> d[2]],
                   labelSize |-> size, dpi |-> dpi, fitMode |-> m]
  /\ resizePc = "start"
  /\ resized = NoResized
  /\ CropIdle
  /\ JobsIdle
  /\ ClientIdle

ResizeImage ==
  /\ resizePc = "start"
  /\ LET out == resizeImage(resizeIn.src, resizeIn.labelSize, resizeIn.dpi, resizeIn.fitMode)
     IN /\ resized' = out
        /\ resizePc' = IF out.error = "" THEN "done" ELSE "failed"
  /\ UNCHANGED resizeIn
  /\ UNCHANGED cropVars
  /\ UNCHANGED jobVars
  /\ UNCHANGED clientVars

NextResize == ResizeImage

SpecResize == InitResize /\ [][NextResize]_vars

(***************************************************************************)
(* SpecCrop: autoCropLabel applied to one image                            *)
(***************************************************************************)
InitCrop ==
  /\ image \in TinyImages \cup FrameImages
  /\ cropPc = "start"
  /\ crop = NoCropNeeded(NoBox)
  /\ extractCalls = <<>>
  /\ swiftCrop = NotRun
  /\ mirrorCrops = NoMirrorCrops
  /\ ResizeIdle
  /\ JobsIdle
  /\ ClientIdle

AutoCropLabel ==
  /\ cropPc = "start"
  /\ LET c == autoCropLabel(image)
     IN /\ crop' = c
        /\ extractCalls' = IF c.returned = "extract"
                           THEN Append(extractCalls, c.rect)
                           ELSE extractCalls
  /\ cropPc' = "done"
  /\ UNCHANGED <<image, swiftCrop, mirrorCrops>>
  /\ UNCHANGED resizeVars
  /\ UNCHANGED jobVars
  /\ UNCHANGED clientVars

\* LabelProcessor.autoCrop is given the same image
AutoCrop ==
  /\ cropPc = "done"
  /\ swiftCrop = NotRun
  /\ swiftCrop' = LabelProcessor_autoCrop(image)
  /\ UNCHANGED <<image, cropPc, crop, extractCalls, mirrorCrops>>
  /\ UNCHANGED resizeVars
  /\ UNCHANGED jobVars
  /\ UNCHANGED clientVars

\* autoCropLabel is given the image mirrored top to bottom, and mirrored
\* left to right
AutoCropLabelMirrored ==
  /\ cropPc = "done"
  /\ mirrorCrops = NoMirrorCrops
  /\ LET flip == autoCropLabel(Flip(image))
         flop == autoCropLabel(Flop(image))
     IN mirrorCrops' = [flip |-> [returned |-> flip.returned, rect |-> flip.rect],
                        flop |-> [returned |-> flop.returned, rect |-> flop.rect]]
  /\ UNCHANGED <<image, cropPc, crop, extractCalls, swiftCrop>>
  /\ UNCHANGED resizeVars
  /\ UNCHANGED jobVars
  /\ UNCHANGED clientVars

NextCrop ==
  \/ AutoCropLabel
  \/ AutoCrop
  \/ AutoCropLabelMirrored

SpecCrop == InitCrop /\ [][NextCrop]_vars

(***************************************************************************)
(* Properties of autoCropLabel (checked under SpecCrop)                    *)
(***************************************************************************)
Luminance(x, y) == image.gray[y * image.width + x]

DarkCols == {x \in 0..(image.width - 1) : \E y \in 0..(image.height - 1) : Luminance(x, y) < 80}

DarkRows == {y \in 0..(image.height - 1) : \E x \in 0..(image.width - 1) : Luminance(x, y) < 80}

\* the tightest axis-aligned box around the dark pixels, right / bottom exclusive
TightBox ==
  LET cols == DarkCols
      rows == DarkRows
  IN [bx0 |-> SetMin(cols), by0 |-> SetMin(rows),
      bx1 |-> SetMax(cols) + 1, by1 |-> SetMax(rows) + 1]

BoxArea(b) == (b.bx1 - b.bx0) * (b.by1 - b.by0)

DarkInRow(b, y) == Cardinality({x \in b.bx0..(b.bx1 - 1) : Luminance(x, y) < 80})

DarkInCol(b, x) == Cardinality({y \in b.by0..(b.by1 - 1) : Luminance(x, y) < 80})

RowIsBorderLine(b, y) == 2 * DarkInRow(b, y) > b.bx1 - b.bx0

ColIsBorderLine(b, x) == 2 * DarkInCol(b, x) > b.by1 - b.by0

Cropped == cropPc = "done" /\ crop.returned = "extract"

\* C1: an image with no pixel of luminance below 80 is returned as it is,
\* and nothing is extracted from it.
C1_NoDarkPixelIdentity ==
  (cropPc = "done" /\ DarkCols = {}) =>
     (crop.returned = "input" /\ extractCalls = <<>>)

C1_Witness ==
  /\ cropPc = "done" /\ DarkCols = {}
  /\ image.width = 2 /\ image.height = 5 /\ crop.returned = "input"

\* C2: every rectangle handed to extract lies inside the image and has
\* positive width and height.
C2_ExtractRectInImage ==
  \A i \in DOMAIN extractCalls :
     LET r == extractCalls[i]
     IN /\ r.left >= 0 /\ r.top >= 0 /\ r.width > 0 /\ r.height > 0
        /\ r.left + r.width <= image.width
        /\ r.top + r.height <= image.height

\* the padded right and bottom sides had to be clamped to the image
C2_Witness ==
  /\ Cropped /\ Len(extractCalls) = 1
  /\ crop.inner.right + 8 > image.width /\ crop.inner.bottom + 8 > image.height
  /\ crop.inner.left > 8

\* C3: a bounding box of area below 5% of the image area gives the input
\* back; an area of 5% or more proceeds to the scan and the crop.
C3_AreaThreshold ==
  (cropPc = "done" /\ DarkCols # {}) =>
     LET area == BoxArea(TightBox)
     IN /\ (20 * area < image.width * image.height) => crop.returned = "input"
        /\ (20 * area >= image.width * image.height) => crop.returned = "extract"

\* the boundary: the box is exactly 5% of the image, and the image is cropped
C3_Witness ==
  /\ Cropped /\ DarkCols # {}
  /\ 20 * BoxArea(TightBox) = image.width * image.height

\* the inward scan as stated: up to min(floor(dim / 2), 100) lines from the
\* boundary, stopping at the first line that is not a border line
ScanSteps(boxDim) == IF boxDim \div 2 < 100 THEN boxDim \div 2 ELSE 100

StatedTop(b) ==
  LET ks == {k \in 0..(ScanSteps(b.by1 - b.by0) - 1) : ~RowIsBorderLine(b, b.by0 + k)}
  IN IF ks = {} THEN b.by0 ELSE b.by0 + SetMin(ks)

StatedBottom(b) ==
  LET ks == {k \in 0..(ScanSteps(b.by1 - b.by0) - 1) : ~RowIsBorderLine(b, b.by1 - 1 - k)}
  IN IF ks = {} THEN b.by1 ELSE b.by1 - SetMin(ks)

StatedLeft(b) ==
  LET ks == {k \in 0..(ScanSteps(b.bx1 - b.bx0) - 1) : ~ColIsBorderLine(b, b.bx0 + k)}
  IN IF ks = {} THEN b.bx0 ELSE b.bx0 + SetMin(ks)

StatedRight(b) ==
  LET ks == {k \in 0..(ScanSteps(b.bx1 - b.bx0) - 1) : ~ColIsBorderLine(b, b.bx1 - 1 - k)}
  IN IF ks = {} THEN b.bx1 ELSE b.bx1 - SetMin(ks)

\* C4: each of the four inner edges is where a scan of up to
\* min(floor(boxDimension / 2), 100) lines from the bounding-box boundary
\* meets its first non-border line, or the boundary itself when there is none.
C4_InwardScanFourEdges ==
  Cropped =>
     LET b == TightBox
     IN /\ crop.inner.top = StatedTop(b)
        /\ crop.inner.left = StatedLeft(b)
        /\ crop.inner.bottom = StatedBottom(b)
        /\ crop.inner.right = StatedRight(b)

\* the part of C4 the code does satisfy: the top and left edges
C4_TopLeftAsStated ==
  Cropped =>
     LET b == TightBox
     IN crop.inner.top = StatedTop(b) /\ crop.inner.left = StatedLeft(b)

\* C5: a row (column) of the bounding box is a border line exactly when more
\* than half of its pixels inside the box are darker than 80; the first line
\* a scan meets stops the scan exactly when it is not such a line.
C5_BorderLineMajority ==
  (cropPc = "done" /\ DarkCols # {}) =>
     LET b == crop.box
     IN /\ \A y \in b.by0..(b.by1 - 1) :
             rowIsBorder(image, y, b.bx0, b.bx1) <=> RowIsBorderLine(b, y)
        /\ \A x \in b.bx0..(b.bx1 - 1) :
             colIsBorder(image, x, b.by0, b.by1) <=> ColIsBorderLine(b, x)
        /\ (Cropped /\ b.by1 - b.by0 >= 4) =>
             (crop.steps.top = 1 <=> ~RowIsBorderLine(b, b.by0))
        /\ (Cropped /\ b.bx1 - b.bx0 >= 4) =>
             (crop.steps.left = 1 <=> ~ColIsBorderLine(b, b.bx0))

\* a first row with exactly half of its pixels dark ended the top scan
C5_Witness ==
  /\ Cropped /\ crop.box.by1 - crop.box.by0 >= 4
  /\ 2 * DarkInRow(crop.box, crop.box.by0) = crop.box.bx1 - crop.box.bx0
  /\ crop.steps.top = 1 /\ crop.inner.top = crop.box.by0

\* C6: the extracted rectangle is the inner rectangle grown by 8 pixels on
\* each side, each side clamped to the image, and so contains it.
C6_PaddingExact ==
  Cropped =>
     LET r == crop.rect
         in == crop.inner
     IN /\ r.left = (IF in.left - 8 < 0 THEN 0 ELSE in.left - 8)
        /\ r.top = (IF in.top - 8 < 0 THEN 0 ELSE in.top - 8)
        /\ r.left + r.width =
             (IF in.right + 8 > image.width THEN image.width ELSE in.right + 8)
        /\ r.top + r.height =
             (IF in.bottom + 8 > image.height THEN image.height ELSE in.bottom + 8)
        /\ r.left <= in.left /\ r.top <= in.top
        /\ in.right <= r.left + r.width /\ in.bottom <= r.top + r.height

\* no side is clamped: the rectangle is exactly 8 pixels larger all round
C6_Witness ==
  /\ Cropped
  /\ crop.rect.left = crop.inner.left - 8 /\ crop.rect.left > 0
  /\ crop.rect.top = crop.inner.top - 8 /\ crop.rect.top > 0
  /\ crop.rect.width = crop.inner.right - crop.inner.left + 16
  /\ crop.rect.height = crop.inner.bottom - crop.inner.top + 16
  /\ crop.inner.left > crop.box.bx0

\* C25: autoCropLabel and LabelProcessor.autoCrop are one algorithm: on
\* every image, with the same pixels classified dark, both decide alike
\* whether to crop, and when they crop they cut the same rectangle.
C25_NodeAndSwiftAgree ==
  (cropPc = "done" /\ swiftCrop # NotRun) =>
     /\ swiftCrop.returned = crop.returned
     /\ crop.returned = "extract" => swiftCrop.rect = crop.rect

\* the rectangle's mirror image, top to bottom, in an image of this height
FlipRect(r, height) == [r EXCEPT !.top = height - (r.top + r.height)]

\* the rectangle's mirror image, left to right, in an image of this width
FlopRect(r, width) == [r EXCEPT !.left = width - (r.left + r.width)]

\* C26: the detector treats opposite edges alike: the rectangle it computes
\* for the image mirrored top to bottom (left to right) is the mirror image
\* of the rectangle it computes for the image.
C26_MirrorSymmetry ==
  (cropPc = "done" /\ mirrorCrops # NoMirrorCrops) =>
     /\ mirrorCrops.flip.returned = crop.returned
     /\ mirrorCrops.flop.returned = crop.returned
     /\ crop.returned = "extract" =>
           /\ mirrorCrops.flip.rect = FlipRect(crop.rect, image.height)
           /\ mirrorCrops.flop.rect = FlopRect(crop.rect, image.width)

\* the part of C26 that holds: the decision to crop is the same for the
\* mirror images
C26_MirrorSameDecision ==
  (cropPc = "done" /\ mirrorCrops # NoMirrorCrops) =>
     /\ mirrorCrops.flip.returned = crop.returned
     /\ mirrorCrops.flop.returned = crop.returned

(***************************************************************************)
(* Properties of resizeImage (checked under SpecResize)                    *)
(***************************************************************************)
Abs(n) == IF n < 0 THEN 0 - n ELSE n

Resized == resizePc = "done"

\* r is x rounded to the nearest integer, a half going up, for x = halves / 2
IsRoundOfHalves(r, halves) == 2 * r - 1 <= halves /\ halves < 2 * r + 1

\* C9: the buffer resizeImage produces is round(widthIn * dpi) by
\* round(heightIn * dpi) pixels, whatever the fit mode and the source size;
\* 4x6 at 300 dpi is 1200 x 1800.
C9_TargetDimensionsExact ==
  Resized =>
     /\ IsRoundOfHalves(resized.width, resizeIn.labelSize[1] * resizeIn.dpi)
     /\ IsRoundOfHalves(resized.height, resizeIn.labelSize[2] * resizeIn.dpi)
     /\ (resizeIn.labelSize = <<8, 12>> /\ resizeIn.dpi = 300) =>
          (resized.width = 1200 /\ resized.height = 1800)

\* letter at 301 dpi: 8.5 * 301 = 2558.5 rounds up to 2559
C9_Witness ==
  /\ Resized /\ resizeIn.labelSize = <<17, 22>> /\ resizeIn.dpi = 301
  /\ resized.width = 2559 /\ resized.height = 3311
  /\ resizeIn.src.width = 7 /\ resizeIn.fitMode = "fill"

SamplesAlong(lo, len, size) ==
  {v \in {0, lo - 1, lo, lo + len - 1, lo + len, size - 1} : 0 <= v /\ v < size}

\* C10: in fit mode the source is scaled on both axes by
\* min(targetW / srcW, targetH / srcH) (to the pixel), lies wholly inside the
\* target, is centred on both axes (margins equal to within a pixel), and
\* every pixel it does not cover is opaque white.
C10_FitContainsCentredOnWhite ==
  (Resized /\ resizeIn.fitMode = "fit") =>
     LET sw == resizeIn.src.width
         sh == resizeIn.src.height
         tw == resized.width
         th == resized.height
         c == resized.content
     IN /\ IF tw * sh <= th * sw
           THEN c.w = tw /\ Abs(c.h * sw - sh * tw) < sw
           ELSE c.h = th /\ Abs(c.w * sh - sw * th) < sh
        /\ c.x >= 0 /\ c.y >= 0 /\ c.x + c.w <= tw /\ c.y + c.h <= th
        /\ Abs(c.x - (tw - (c.x + c.w))) <= 1
        /\ Abs(c.y - (th - (c.y + c.h))) <= 1
        /\ ~resized.hasAlpha
        /\ \A x \in SamplesAlong(c.x, c.w, tw), y \in SamplesAlong(c.y, c.h, th) :
             \/ OutPixel(resized, x, y).from = "source"
             \/ OutPixel(resized, x, y).fill = [r |-> 255, g |-> 255, b |-> 255, alpha |-> 255]

\* a landscape source on a portrait label: white bands above and below, the
\* lower one a pixel taller
C10_Witness ==
  /\ Resized /\ resizeIn.fitMode = "fit"
  /\ resizeIn.src = [width |-> 3300, height |-> 2550]
  /\ resized.content.w = resized.width /\ resized.content.y > 0
  /\ resized.height - (resized.content.y + resized.content.h) = resized.content.y + 1

\* C11: in fill mode the source is scaled on both axes by
\* max(targetW / srcW, targetH / srcH) (to the pixel), covers the whole
\* target, overflows it by the same amount on both sides of the overflowing
\* axis (to within a pixel), and no target pixel is left to the background.
C11_FillCoversCentreCrop ==
  (Resized /\ resizeIn.fitMode = "fill") =>
     LET sw == resizeIn.src.width
         sh == resizeIn.src.height
         tw == resized.width
         th == resized.height
         c == resized.content
     IN /\ IF tw * sh >= th * sw
           THEN c.w = tw /\ 2 * Abs(c.h * sw - sh * tw) <= sw
           ELSE c.h = th /\ 2 * Abs(c.w * sh - sw * th) <= sh
        /\ c.x <= 0 /\ c.y <= 0 /\ c.x + c.w >= tw /\ c.y + c.h >= th
        /\ Abs((0 - c.x) - (c.x + c.w - tw)) <= 1
        /\ Abs((0 - c.y) - (c.y + c.h - th)) <= 1
        /\ \A x \in {0, tw \div 2, tw - 1}, y \in {0, th \div 2, th - 1} :
             OutPixel(resized, x, y).from = "source"

\* a wide strip on a portrait label: scaled to the label's height, the excess
\* width cut off left and right
C11_Witness ==
  /\ Resized /\ resizeIn.fitMode = "fill"
  /\ resizeIn.src = [width |-> 1800, height |-> 100]
  /\ resized.content.h = resized.height
  /\ resized.content.x < 0
  /\ resized.content.x + resized.content.w > resized.width

\* C12: in stretch mode the scaled source occupies exactly the target box,
\* whatever the source's aspect ratio: each axis has its own factor, every
\* output pixel is source content, none is background.
C12_StretchFillsExactly ==
  (Resized /\ resizeIn.fitMode = "stretch") =>
     LET tw == resized.width
         th == resized.height
         c == resized.content
     IN /\ c.x = 0 /\ c.y = 0 /\ c.w = tw /\ c.h = th
        /\ \A x \in {0, tw \div 2, tw - 1}, y \in {0, th \div 2, th - 1} :
             OutPixel(resized, x, y).from = "source"

\* a source whose aspect ratio is far from the label's
C12_Witness ==
  /\ Resized /\ resizeIn.fitMode = "stretch"
  /\ resizeIn.src = [width |-> 1800, height |-> 100]
  /\ resizeIn.labelSize = <<8, 12>> /\ resizeIn.dpi = 300
  /\ resized.content = [x |-> 0, y |-> 0, w |-> 1200, h |-> 1800]

C7_CropFailureNeverAborts ==
  \A j \in JobIds :
     ~(jobs[j].pc = "failed" /\ jobs[j].error.stage = "autoCrop")

\* C8: concurrent jobs do not touch each other: a job rasterises exactly the
\* bytes it was given, and never fails on a file another job replaced or
\* removed.
C8_JobsIsolated ==
  \A j \in JobIds :
     LET jb == jobs[j]
     IN /\ jb.img # NoImg => jb.img.bytes[1] = j
        /\ \A i \in DOMAIN jb.labels : jb.labels[i].bytes = Bytes(j, i)
        /\ jb.pending.cause # "ENOENT"
        /\ jb.pc = "failed" => jb.error.cause # "ENOENT"

\* bufToImage has returned or thrown for the job's k-th input
BufToImageFinished(jb, k) ==
  /\ UsesBuffers(jb)
  /\ jb.pc \notin {"new", "absent"}
  /\ k \in 1..jb.k
  /\ jb.args[k] \in SUPPORTED_PDF_EXTS
  /\ k = jb.k => jb.pc \notin {"awaitImport", "awaitRaster"}

\* no temporary file holds the bytes of an input bufToImage has finished
TmpFileRemoved(j) ==
  \A k \in DOMAIN jobs[j].args :
     BufToImageFinished(jobs[j], k) =>
        \A n \in TmpNames : tmpFiles[n] # Bytes(j, k)

\* C28: once resizeLabelFromBuffers has finished with a PDF input, its
\* rasterisation having succeeded or thrown, the temporary file it wrote is
\* gone; and no job whose rasterisation succeeded fails on removing a file
\* that another job removed already.
C28_TmpRemovedResultKept ==
  \A j \in JobIds :
     /\ TmpFileRemoved(j)
     /\ (jobs[j].pc = "failed" /\ jobs[j].error.stage = "unlink") =>
           jobs[j].pending # NoError

\* the part of C28 that holds: the file is gone
C28_TmpFileRemoved == \A j \in JobIds : TmpFileRemoved(j)

(***************************************************************************)
(* Properties of a request (checked under SpecRequest)                     *)
(***************************************************************************)
Done(j) == jobs[j].pc = "done"

\* what the job's document draws on its page
Draws(j) == jobs[j].pdf.pages[1].draws

\* the label size of a job, in half inches: the catalog entry named by the
\* caller, 4x6 when none is named
JobLabelSize(jb) ==
  IF jb.entry \notin {"post", "cli"} /\ jb.labelSize \in {"4x6", "4x8", "2x7", "letter"}
  THEN LABEL_SIZES[jb.labelSize]
  ELSE <<8, 12>>

DeclaredSupported == {".bmp", ".jpg", ".jpeg", ".pdf", ".png", ".tif", ".tiff", ".webp"}

\* C14: every composed document has exactly one page of 792 x 612 points,
\* whatever the dpi, the label size and the number of labels, and each label
\* is drawn at its size in inches times 72 points: its pixel size plays no
\* part.
C14_OnePageLandscapeLetter ==
  \A j \in JobIds :
     Done(j) =>
        LET jb == jobs[j]
            size == JobLabelSize(jb)
        IN /\ Len(jb.pdf.pages) = 1
           /\ jb.pdf.pages[1].width = 792 /\ jb.pdf.pages[1].height = 612
           /\ \A i \in DOMAIN Draws(j) :
                /\ 2 * Draws(j)[i].width = size[1] * 72
                /\ 2 * Draws(j)[i].height = size[2] * 72

\* two letter labels resized at 150 dpi: 1275 x 1650 pixels each, drawn at
\* 612 x 792 points
C14_Witness ==
  /\ Done(1) /\ jobs[1].dpi = 150 /\ jobs[1].labelSize = "letter"
  /\ Len(Draws(1)) = 2
  /\ Draws(1)[2].img.width = 1275 /\ Draws(1)[2].img.height = 1650
  /\ Draws(1)[2].width = 612 /\ Draws(1)[2].height = 792

\* C15: label 1 is centred in the left half of the page, label 2 in the
\* right half, each is centred vertically, and so the two x-offsets mirror
\* each other about the page's centre line:
\* xRight - halfPageWidth = halfPageWidth - (xLeft + labelWidth).
C15_TwoUpSymmetry ==
  \A j \in JobIds :
     Done(j) =>
        LET d == Draws(j)
        IN /\ d[1].x = 396 - (d[1].x + d[1].width)
           /\ \A i \in DOMAIN d : d[i].y = 612 - (d[i].y + d[i].height)
           /\ Len(d) = 2 =>
                /\ d[2].x - 396 = 792 - (d[2].x + d[2].width)
                /\ d[2].x - 396 = 396 - (d[1].x + d[1].width)

\* two 2x7 labels: x = 126 and x = 522, y = 54
C15_Witness ==
  /\ Done(1) /\ jobs[1].labelSize = "2x7" /\ jobs[1].entry = "path"
  /\ Len(Draws(1)) = 2
  /\ Draws(1)[1].x = 126 /\ Draws(1)[2].x = 522 /\ Draws(1)[1].y = 54

\* was a second input handed in, and did the entry point take it?
SecondSupplied(jb) == Len(jb.exts) = 2

SecondAccepted(jb) ==
  /\ Len(jb.exts) = 2
  /\ jb.entry = "post" => jb.exts[2] \in DeclaredSupported
  /\ jb.entry = "buffers" => jb.exts[2] # ""

\* where the left label of a two-label job of this label size is drawn
LeftSlot(size) ==
  [x |-> (396 - size[1] * 36) \div 2, y |-> (612 - size[2] * 36) \div 2,
   width |-> size[1] * 36, height |-> size[2] * 36]

Slot(d) == [x |-> d.x, y |-> d.y, width |-> d.width, height |-> d.height]

\* the counting and placing part of C16: one image for one label, two if and
\* only if a second input was supplied and accepted, never more; the first
\* always in the left label's place
C16_CountAndLeftPlace ==
  \A j \in JobIds :
     Done(j) =>
        /\ Len(Draws(j)) \in {1, 2}
        /\ Len(Draws(j)) = 2 <=> (SecondSupplied(jobs[j]) /\ SecondAccepted(jobs[j]))
        /\ Slot(Draws(j)[1]) = LeftSlot(JobLabelSize(jobs[j]))

\* C16: with one label supplied, exactly one image is embedded, in the place
\* and at the size of the left label of a two-label job, and nothing is drawn
\* in the right half of the page; a document embeds two images if and only
\* if a second input was supplied and accepted, and never more than two.
C16_SingleLabelLeavesRightHalfBlank ==
  \A j \in JobIds :
     Done(j) =>
        /\ Len(Draws(j)) \in {1, 2}
        /\ Len(Draws(j)) = 2 <=> (SecondSupplied(jobs[j]) /\ SecondAccepted(jobs[j]))
        /\ Slot(Draws(j)[1]) = LeftSlot(JobLabelSize(jobs[j]))
        /\ Len(Draws(j)) = 1 => Draws(j)[1].x + Draws(j)[1].width <= 396

\* the unsupported-format error of job jb names the rejected extension and
\* lists the supported ones in the given order, and no stage has run on the
\* rejected input
RejectedWith(jb, listing) ==
  /\ jb.pc = "failed"
  /\ jb.error.cause = "Unsupported format"
  /\ jb.error.ext = jb.exts[jb.k]
  /\ jb.error.supported = listing
  /\ \A i \in DOMAIN jb.ran : jb.ran[i][1] # jb.k
  /\ Len(jb.labels) = jb.k - 1
  /\ jb.pdf = NoDoc

\* has job jb begun to load an input whose extension is not supported?
LoadsUnsupported(jb) ==
  \/ jb.entry \in {"path", "cli"} /\ jb.k >= 1 /\ jb.exts[jb.k] \notin DeclaredSupported
  \/ jb.entry = "post" /\ jb.pc # "new" /\ jb.exts[1] \notin DeclaredSupported

\* C17, as stated: loading an input with an unsupported extension fails with
\* an error that names the extension and lists the supported set as
\* .bmp, .jpg, .jpeg, .pdf, .png, .tif, .tiff, .webp; no stage runs for it.
C17_UnsupportedFormatAsStated ==
  \A j \in JobIds :
     LoadsUnsupported(jobs[j]) =>
        RejectedWith(jobs[j],
                     <<".bmp", ".jpg", ".jpeg", ".pdf", ".png", ".tif", ".tiff", ".webp">>)

\* C17, amended: loading an input with an unsupported extension fails with
\* an error that names the extension and lists the supported set in sorted
\* order, .bmp, .jpeg, .jpg, .pdf, .png, .tif, .tiff, .webp (.jpeg sorts
\* before .jpg); no stage runs for it.
C17_UnsupportedFormatListsSorted ==
  \A j \in JobIds :
     /\ LoadsUnsupported(jobs[j]) =>
          RejectedWith(jobs[j],
                       <<".bmp", ".jpeg", ".jpg", ".pdf", ".png", ".tif", ".tiff", ".webp">>)
     /\ (jobs[j].pc = "failed" /\ jobs[j].error.cause = "Unsupported format") =>
          LoadsUnsupported(jobs[j])

\* resizeLabel with a .png and a .gif: the first label is done, the second is
\* rejected before it is loaded
C17_Witness ==
  /\ jobs[1].entry = "path" /\ jobs[1].exts = <<".png", ".gif">>
  /\ jobs[1].pc = "failed" /\ jobs[1].error.ext = ".gif"
  /\ Len(jobs[1].labels) = 1

\* C18: every input with an unsupported extension, the second file included,
\* is rejected with a descriptive error at every entry point: no job
\* succeeds with such an input among those it was given, and none decodes
\* one.
C18_EveryUnsupportedInputRejected ==
  \A j \in JobIds :
     LET jb == jobs[j]
     IN /\ Done(j) => \A i \in DOMAIN jb.exts : jb.exts[i] \in DeclaredSupported
        /\ \A i \in DOMAIN jb.ran : jb.exts[jb.ran[i][1]] \in DeclaredSupported

\* the job has rasterised page 0 of each PDF at its own dpi
RasterAtJobDpi(jb) ==
  /\ \A i \in DOMAIN jb.loadPageCalls : jb.loadPageCalls[i][2] = 0
  /\ \A i \in DOMAIN jb.labels :
       jb.labels[i].raster # NoRaster =>
          jb.labels[i].raster = [page |-> 0, dpi |-> jb.dpi]
  /\ jb.img.raster # NoRaster => jb.img.raster = [page |-> 0, dpi |-> jb.dpi]

\* C19: of a PDF input only page 0 is rasterised, at a scale of the job's
\* dpi over 72, whichever entry point the job came through.
C19_PdfPageZeroAtJobDpi ==
  \A j \in JobIds :
     jobs[j].entry \in {"path", "cli", "buffers", "post"} => RasterAtJobDpi(jobs[j])

\* the part of C19 that holds: through resizeLabelFromBuffers the job's dpi
\* is the rasteriser's
C19_BuffersRasterAtJobDpi ==
  \A j \in JobIds :
     jobs[j].entry \in {"buffers", "post"} => RasterAtJobDpi(jobs[j])

\* C20: rasterising a document with no pages, or a page index the document
\* does not have, fails with an error before any page is loaded, and the job
\* produces no document.
C20_MissingPageFailsEarly ==
  \A j \in JobIds :
     LET jb == jobs[j]
         page == IF jb.entry = "loadImageFromPdf" THEN jb.pageNum ELSE 0
     IN (/\ jb.k >= 1
         /\ jb.pc \notin {"new", "awaitImport"}
         /\ jb.args[jb.k] = ".pdf"
         /\ jb.pageCounts[jb.k] <= page) =>
           /\ \/ jb.pc = "failed" /\ jb.error.cause = "Page does not exist"
              \/ jb.pc = "awaitRaster" /\ jb.pending.cause = "Page does not exist"
           /\ \A i \in DOMAIN jb.loadPageCalls : jb.loadPageCalls[i][1] # jb.k
           /\ jb.img.bytes # Bytes(j, jb.k)
           /\ jb.pdf = NoDoc

\* page index 2 of a two-page document
C20_Witness ==
  /\ jobs[1].entry = "loadImageFromPdf" /\ jobs[1].pageNum = 2
  /\ jobs[1].pageCounts = <<2>>
  /\ jobs[1].pc = "failed"
  /\ jobs[1].error.pageNum = 2 /\ jobs[1].error.pageCount = 2
  /\ jobs[1].loadPageCalls = <<>>

\* the stages that have run on a job's k-th input, in the order they ran
StagesOf(jb, k) ==
  LET mine == SelectSeq(jb.ran, LAMBDA e : e[1] = k)
  IN [i \in DOMAIN mine |-> mine[i][2]]

IsPrefix(s, t) == Len(s) <= Len(t) /\ \A i \in DOMAIN s : s[i] = t[i]

\* the stages that come before the one that failed, for the same input
StagesBefore(stage) ==
  CASE stage = "autoCrop" -> <<"load">>
    [] stage = "resize" -> <<"load", "autoCrop">>
    [] stage = "compose" -> <<"load", "autoCrop", "resize">>
    [] OTHER -> <<>>

\* C21: once a stage has failed for an input of a job, nothing more of the
\* pipeline runs and the job has no document: the stages that ran on the
\* failing input are only those before the failed one, no later input was
\* started, and the labels prepared so far are never composed.
C21_FailureAbortsJob ==
  \A j \in JobIds :
     LET jb == jobs[j]
     IN jb.error # NoError =>
          /\ jb.pc = "failed"
          /\ jb.pdf = NoDoc
          /\ \A i \in DOMAIN jb.ran : jb.ran[i][1] <= jb.k
          /\ \A i \in DOMAIN StagesOf(jb, jb.k) :
                \E n \in DOMAIN StagesBefore(jb.error.stage) :
                   StagesOf(jb, jb.k)[i] = StagesBefore(jb.error.stage)[n]
          /\ jb.error.stage # "compose" => Len(jb.labels) = jb.k - 1

\* the second of two labels fails in resizeImage: the first label is ready
\* and no document exists
C21_Witness ==
  /\ jobs[1].entry = "path" /\ jobs[1].exts = <<".png", ".pdf">>
  /\ jobs[1].pc = "failed" /\ jobs[1].error.stage = "resize"
  /\ jobs[1].k = 2 /\ Len(jobs[1].labels) = 1
  /\ jobs[1].pdf = NoDoc

\* C22: on every input the stages run in the order load (decode or
\* rasterise), border crop (only when autoCrop is set), resize; an input is
\* started only when the one before it is resized, and the page is composed
\* only when every input is; with autoCrop off the detector never runs and
\* resizeImage receives the loaded buffer itself.
C22_StageOrder ==
  \A j \in JobIds :
     LET jb == jobs[j]
         all == IF jb.autoCrop THEN <<"load", "autoCrop", "resize">>
                ELSE <<"load", "resize">>
     IN jb.pc \notin {"new", "absent"} =>
          /\ \A k \in DOMAIN jb.args : IsPrefix(StagesOf(jb, k), all)
          /\ \A k \in DOMAIN jb.args :
                (k > 1 /\ StagesOf(jb, k) # <<>>) => StagesOf(jb, k - 1) = all
          /\ (jb.pc \in {"awaitPdf", "done"} \/ jb.error.stage = "compose") =>
                /\ \A k \in DOMAIN jb.args : StagesOf(jb, k) = all
                /\ Len(jb.labels) = Len(jb.args)
          /\ (~jb.autoCrop /\ jb.pc = "awaitResize") =>
                /\ ~jb.img.cropped
                /\ jb.img.bytes = Bytes(j, jb.k)
          /\ ~jb.autoCrop => \A i \in DOMAIN jb.labels : ~jb.labels[i].cropped

\* two inputs, autoCrop off: load and resize of the first, then of the
\* second, then the page
C22_Witness ==
  /\ Done(1) /\ ~jobs[1].autoCrop
  /\ jobs[1].ran = <<<<1, "load">>, <<1, "resize">>, <<2, "load">>, <<2, "resize">>>>
  /\ Len(Draws(1)) = 2

\* the catalog of label sizes, in half inches
CatalogInHalves ==
  [s \in {"4x6", "4x8", "2x7", "letter"} |->
     CASE s = "4x6" -> <<8, 12>>
       [] s = "4x8" -> <<8, 16>>
       [] s = "2x7" -> <<4, 14>>
       [] s = "letter" -> <<17, 22>>]

\* the job resizes to, and places at, the given size
AppliesSize(j, size) ==
  LET jb == jobs[j]
  IN /\ jb.size = size
     /\ \A i \in DOMAIN jb.labels :
           /\ jb.labels[i].width = TargetW(size, jb.dpi)
           /\ jb.labels[i].height = TargetH(size, jb.dpi)
     /\ Done(j) =>
           \A i \in DOMAIN Draws(j) :
              /\ Draws(j)[i].width = Points(size[1])
              /\ Draws(j)[i].height = Points(size[2])

\* the caller of job j chose a catalog size
ChoseCatalogSize(j) ==
  /\ jobs[j].entry \in RequestEntries
  /\ jobs[j].pc \notin {"new", "absent"}
  /\ "labelSize" \notin jobs[j].omitted
  /\ jobs[j].labelSize \in DOMAIN CatalogInHalves

\* C23: the label size the caller chose is the one the job resizes to and
\* places at, with the catalog 4x6 -> (4, 6), 4x8 -> (4, 8), 2x7 -> (2, 7),
\* letter -> (8.5, 11), at every entry point that takes a size, the
\* label_size field of POST /resize included.
C23_ChosenSizeApplied ==
  /\ LABEL_SIZES = CatalogInHalves
  /\ \A j \in JobIds :
        ChoseCatalogSize(j) => AppliesSize(j, CatalogInHalves[jobs[j].labelSize])

\* the part of C23 that holds: the catalog, and the size passed to
\* resizeLabel or resizeLabelFromBuffers
C23_CoreAppliesChosenSize ==
  /\ LABEL_SIZES = CatalogInHalves
  /\ \A j \in JobIds :
        (ChoseCatalogSize(j) /\ jobs[j].entry \in {"path", "buffers"}) =>
           AppliesSize(j, CatalogInHalves[jobs[j].labelSize])

\* the defaults are those of the left-out parameters of job j
DefaultsApplied(j) ==
  LET jb == jobs[j]
  IN /\ "fitMode" \in jb.omitted => jb.fitMode = "fit"
     /\ "autoCrop" \in jb.omitted => jb.autoCrop
     /\ "dpi" \in jb.omitted => jb.dpi = 300
     /\ "labelSize" \in jb.omitted => AppliesSize(j, <<8, 12>>)

\* the caller asks for no cropping: the boolean false, the text false in
\* any case, or the flag --no-crop
AsksForNoCrop(jb) ==
  /\ "autoCrop" \notin jb.omitted
  /\ jb.autoCropArg \in {"false", "False", "FALSE", "--no-crop"}

\* C24: at every entry point a parameter left out takes its default (fit,
\* autoCrop on, 4x6, 300 dpi), and autoCrop is off only for a caller who
\* asked for that.
C24_DefaultsAndCropOffOnlyOnRequest ==
  \A j \in JobIds :
     (jobs[j].entry \in RequestEntries /\ jobs[j].pc \notin {"new", "absent"}) =>
        /\ DefaultsApplied(j)
        /\ ~jobs[j].autoCrop => AsksForNoCrop(jobs[j])

\* the part of C24 that holds: the defaults
C24_DefaultsApplied ==
  \A j \in JobIds :
     (jobs[j].entry \in RequestEntries /\ jobs[j].pc \notin {"new", "absent"}) =>
        DefaultsApplied(j)

\* the draw lies on the page between the verticals x = from and x = to
DrawnWithin(d, from, to) ==
  /\ d.x >= from /\ d.x + d.width <= to
  /\ d.y >= 0 /\ d.y + d.height <= Points(PAGE_HEIGHT_IN)

\* C27: for every catalog size each label lies on the 792 x 612 page, the
\* left one in the left half and the right one in the right half, and the
\* two do not overlap.
C27_LabelsWithinHalves ==
  \A j \in JobIds :
     Done(j) =>
        /\ \A i \in DOMAIN Draws(j) :
              DrawnWithin(Draws(j)[i],
                          (i - 1) * (Points(PAGE_WIDTH_IN) \div 2),
                          i * (Points(PAGE_WIDTH_IN) \div 2))
        /\ Len(Draws(j)) = 2 => Draws(j)[1].x + Draws(j)[1].width <= Draws(j)[2].x

\* the part of C27 that holds: the sizes no wider than half the page
C27_NarrowLabelsWithinHalves ==
  \A j \in JobIds :
     (Done(j) /\ jobs[j].size # LABEL_SIZES["letter"]) =>
        /\ \A i \in DOMAIN Draws(j) :
              DrawnWithin(Draws(j)[i],
                          (i - 1) * (Points(PAGE_WIDTH_IN) \div 2),
                          i * (Points(PAGE_WIDTH_IN) \div 2))
        /\ Len(Draws(j)) = 2 => Draws(j)[1].x + Draws(j)[1].width <= Draws(j)[2].x

(***************************************************************************)
(* Properties of the web client (checked under SpecClient)                 *)
(***************************************************************************)
\* the button is disabled while a request is in flight, so that there is at
\* most one, and enabled again when none is and a first file is chosen
OneRequestAtATime ==
  /\ Cardinality(inFlight) <= 1
  /\ inFlight # {} => ButtonDisabled
  /\ (inFlight = {} /\ slotFiles[1] # NoFile) => ~ButtonDisabled

\* C29: at most one /resize request is in flight: from the start of a
\* resize to its completion or failure the Resize button stays disabled,
\* whatever the user does meanwhile (choosing another file included), and
\* after every completion it is enabled again.
C29_OneRequestInFlight == ui \in {"main.ts", "App.tsx"} => OneRequestAtATime

\* the part of C29 that holds: the React client
C29_ReactOneRequestInFlight == ui = "App.tsx" => OneRequestAtATime

\* with no load pending for it, a slot shows the thumbnail of its current
\* file or none
SlotShowsCurrent(slot) ==
  (\A l \in loads : l.slot # slot) => preview[slot] \in {NoFile, slotFiles[slot]}

\* with no load pending for it, the output canvas shows the current blob
\* URL or nothing
CanvasShowsCurrent == outputLoads = {} => canvas \in {NoUrl, pdfBlobUrl}

\* C30: a preview ends up showing the most recently selected content: once
\* the pending loads have finished, in whatever order, the thumbnail of a
\* slot is that of the slot's current file and the output canvas that of
\* the current blob URL; the load of an earlier file or URL never
\* overwrites a later one.
C30_PreviewShowsLatest ==
  ui \in {"main.ts", "App.tsx"} =>
     /\ \A slot \in Slots : SlotShowsCurrent(slot)
     /\ CanvasShowsCurrent

\* the part of C30 that holds: the output canvas of OutputPreview
C30_OutputPreviewShowsLatest == ui = "App.tsx" => CanvasShowsCurrent

====
